---- MODULE Spec2Model ----
(***************************************************************************)
(* A model of src/main.ts, the install-qt action.  run() is one async     *)
(* function: the code between two awaits runs atomically, so every action *)
(* below is "an awaited call settles, and run() continues up to its next  *)
(* await".  A JavaScript string is a sequence of atoms (single characters *)
(* where the code splits or parses it, longer literals elsewhere), and +  *)
(* on strings is \o.                                                      *)
(***************************************************************************)
EXTENDS Integers, Sequences, FiniteSets, TLC

VARIABLES
    platform,     \* process.platform of the runner
    pc,           \* the await run() is suspended at, or "start", or "done"
    exited,       \* node ended the process on an unhandled rejection
    inflight,     \* external calls run() has started and that have not settled
    toolCalls,    \* the tool installations fired by the forEach, with their state
    failedMsg,    \* the message given to core.setFailed, <<>> while it was not called
    dir, tools, setEnv,        \* consts of lines 44-46
    host, target,              \* consts of lines 66-67
    simpleSpec,                \* const of line 70
    cached,                    \* core.getInput("cached"), line 83
    archInput,                 \* core.getInput("arch"), line 92
    arch, extra, modules,      \* locals of the install block, lines 92-94
    version,                   \* const version (line 95, then line 155)
    args,                      \* the installer's argument vector, line 136
    qtPath,                    \* line 159
    ldLibraryPath,             \* process.env.LD_LIBRARY_PATH as read at line 165
    pkgConfigPath,             \* process.env.PKG_CONFIG_PATH as read at line 172
    mutations,                 \* core.exportVariable / core.addPath calls, in order
    nResolve,                  \* how many times determineVersion was called
    badLookup                  \* a version lookup exited non-zero or printed nothing

vars == <<platform, pc, exited, inflight, toolCalls, failedMsg, dir, tools, setEnv, host,
          target, simpleSpec, cached, archInput, arch, extra, modules, version, args,
          qtPath,
          ldLibraryPath, pkgConfigPath, mutations, nResolve, badLookup>>

---------------------------------------------------------------------------
(* Bounds of the model. *)

\* longest "modules" input, in characters
MaxLen == 3
\* most paths the directory glob returns
MaxGlob == 2

---------------------------------------------------------------------------
(* Strings. *)

\* the value of an unset input or environment variable, and of [][0]
Undefined == <<"<undefined>">>
\* the empty string
Empty == <<>>

\* String(undefined) is "undefined", as + computes it
JsStr(s) == IF s = Undefined THEN <<"undefined">> ELSE s

\* a + b on a string and a possibly undefined value
Plus(a, b) == JsStr(a) \o JsStr(b)

\* if (s), s || other: undefined and "" are falsy
Truthy(s) == s # Undefined /\ s # Empty

\* a || b
OrElse(a, b) == IF Truthy(a) THEN a ELSE b

Whitespace == {" ", "\n"}

RECURSIVE TrimStart(_)
TrimStart(s) ==
    IF s # <<>> /\ Head(s) \in Whitespace THEN TrimStart(Tail(s)) ELSE s

RECURSIVE TrimEnd(_)
TrimEnd(s) ==
    IF s # <<>> /\ s[Len(s)] \in Whitespace
    THEN TrimEnd(SubSeq(s, 1, Len(s) - 1))
    ELSE s

\* String.prototype.trim
Trim(s) == TrimEnd(TrimStart(s))

RECURSIVE SplitFrom(_, _, _, _)
SplitFrom(s, sep, cur, acc) ==
    IF s = <<>> THEN Append(acc, cur)
    ELSE IF Head(s) = sep
         THEN SplitFrom(Tail(s), sep, <<>>, Append(acc, cur))
         ELSE SplitFrom(Tail(s), sep, Append(cur, Head(s)), acc)

\* String.prototype.split with a one-character separator
Split(s, sep) == SplitFrom(s, sep, <<>>, <<>>)

\* all strings over an alphabet, of length at most n
StringsUpTo(alphabet, n) == UNION {[1..k -> alphabet] : k \in 0..n}

\* core.getInput trims its value
InputStrings(alphabet) ==
    {s \in StringsUpTo(alphabet, MaxLen) : Trim(s) = s}

---------------------------------------------------------------------------
(* compare-versions, as main.ts uses it. *)

Digits == <<"0", "1", "2", "3", "4", "5", "6", "7", "8", "9">>

IsDigit(c) == \E i \in 1..Len(Digits) : Digits[i] = c

DigitValue(c) == (CHOOSE i \in 1..Len(Digits) : Digits[i] = c) - 1

RECURSIVE ParseInt(_)
ParseInt(s) ==
    IF s = <<>> THEN 0
    ELSE 10 * ParseInt(SubSeq(s, 1, Len(s) - 1)) + DigitValue(s[Len(s)])

\* validate(): one to four dot-separated runs of digits
IsSemver(v) ==
    LET parts == Split(v, ".")
    IN  /\ Len(parts) \in 1..4
        /\ \A i \in 1..Len(parts) :
              /\ parts[i] # <<>>
              /\ \A j \in 1..Len(parts[i]) : IsDigit(parts[i][j])

\* the i-th component as a number, a missing one counting as 0
Component(parts, i) == IF i <= Len(parts) THEN ParseInt(parts[i]) ELSE 0

RECURSIVE CompareFrom(_, _, _)
CompareFrom(p1, p2, i) ==
    IF i > Len(p1) /\ i > Len(p2) THEN 0
    ELSE IF Component(p1, i) > Component(p2, i) THEN 1
    ELSE IF Component(p1, i) < Component(p2, i) THEN -1
    ELSE CompareFrom(p1, p2, i + 1)

RECURSIVE LexCompareFrom(_, _, _)
LexCompareFrom(s1, s2, i) ==
    IF i > Len(s1) /\ i > Len(s2) THEN 0
    ELSE IF i > Len(s1) THEN -1
    ELSE IF i > Len(s2) THEN 1
    ELSE IF s1[i] = s2[i] THEN LexCompareFrom(s1, s2, i + 1)
    ELSE IF s1[i] = "." THEN -1
    ELSE IF s2[i] = "." THEN 1
    ELSE IF DigitValue(s1[i]) < DigitValue(s2[i]) THEN -1 ELSE 1

\* a comparison of the version strings character by character
CompareVersions_Lexicographic(v1, v2) == LexCompareFrom(v1, v2, 1)

\* compareVersions(v1, v2): -1, 0 or 1, numerically per component
CompareVersions(v1, v2) == CompareFrom(Split(v1, "."), Split(v2, "."), 1)

\* compareVersions.compare(v1, v2, operator), for two valid versions
Compare(v1, v2, operator) ==
    LET res == CompareVersions(v1, v2)
    IN  CASE operator = ">=" -> res \in {0, 1}
          [] operator = "<"  -> res = -1

V_5_15_0 == <<"5", ".", "1", "5", ".", "0">>
V_5_6_0 == <<"5", ".", "6", ".", "0">>
V_5_9_0 == <<"5", ".", "9", ".", "0">>
V_5_9 == <<"5", ".", "9">>
V_6_0_0 == <<"6", ".", "0", ".", "0">>

---------------------------------------------------------------------------
(* Inputs of the action and answers of its collaborators.  An input and an
   environment variable are fixed for the run; an action draws each where
   run() first uses it (arch, extra and modules, read at lines 92-94, are
   drawn when the lookup of line 95 has settled). *)

FlagInputs == {"true", "false"}
DepsInputs == {"true", "nosudo", "false"}
Platforms == {"win32", "darwin", "linux"}
DirInputs == {Empty}
SpecInputs == {Empty}
PinInputs == {Empty}
HostInputs == {Empty, <<"windows">>, <<"mac">>, <<"android">>}
TargetInputs == {Empty, <<"android">>}
ArchInputs == {Empty, <<"wasm_32">>, <<"gcc_64">>}
ToolsInputs == {Empty, <<"t", ",", "v", " ", "u">>}
ModulesInputs == InputStrings({"a", "b", " "})
ExtraInputs == {Empty, <<"x">>, <<"x", " ", "y">>}
EnvValues == {Undefined, Empty, <<"X">>}
RunnerWorkspace == <<"/work">>

\* the versions `aqt list-qt --latest` may print
Versions ==
    { <<"5", ".", "5", ".", "9">>, V_5_6_0, <<"5", ".", "8", ".", "9">>, V_5_9_0,
      <<"5", ".", "1", "4", ".", "9">>, V_5_15_0, V_6_0_0,
      <<"6", ".", "2", ".", "0">> }

\* what the lookup writes to stdout: a version and a newline, or nothing
RawOutputs == {v \o <<"\n">> : v \in Versions} \cup {Empty, <<"\n">>}

ExitCodes == {0, 1}

---------------------------------------------------------------------------
(* The external calls. *)

\* nth tells the calls of one command line apart
Call(kind, cmd, a, nth) == [kind |-> kind, cmd |-> cmd, args |-> a, nth |-> nth]

GetDefaultHost ==
    CASE platform = "win32"  -> <<"windows">>
      [] platform = "darwin" -> <<"mac">>
      [] OTHER               -> <<"linux">>

PythonName == IF platform = "win32" THEN <<"python3">> ELSE <<"python">>

SetupPythonCall ==
    Call("setup-python", <<"findPythonVersion">>, << <<">=3.6">>, <<"x64">> >>, 1)

AptPrefix(deps) == IF deps = "true" THEN <<"sudo ">> ELSE Empty

AptUpdateCall(prefix) == Call("apt-update", prefix \o <<"apt-get update">>, <<>>, 1)

AptInstallCall(prefix) ==
    Call("apt-install", prefix \o <<"apt-get install build-essential ... -y">>,
         <<>>, 1)

BrewCall == Call("brew", <<"brew install p7zip">>, <<>>, 1)

PipSetuptoolsCall ==
    Call("pip-setuptools", PythonName \o <<" -m pip install setuptools wheel">>,
         <<>>, 1)

PipPy7zrCall(pin) ==
    Call("pip-py7zr",
         PythonName \o <<" -m pip install \"py7zr">> \o pin \o <<"\"">>, <<>>, 1)

PipAqtCall(pin) ==
    Call("pip-aqtinstall",
         PythonName \o <<" -m pip install \"aqtinstall">> \o pin \o <<"\"">>, <<>>, 1)

\* determineVersion's call of executeCaptureStdout
ResolveCall(h, tg, spec, nth) ==
    Call("list-qt", PythonName \o <<" -m aqt list-qt">>,
         <<h, tg, <<"--spec">>, <<"\"">> \o spec \o <<"\"">>, <<"--latest">> >>, nth)

InstallCall(argv) ==
    Call("install-qt", PythonName \o <<" -m aqt install-qt">>, argv, 1)

\* exec.exec rejects when the process exits non-zero
ExecError(c) == <<"The process '">> \o c.cmd \o <<"' failed with exit code 1">>

ResolveError(spec) ==
    <<"Failed to resolve Qt version from SimpleSpec '">> \o spec \o <<"'">>

SemverError(v) == <<"Invalid argument not valid semver ('">> \o v \o <<"' received)">>

---------------------------------------------------------------------------
(* Lines 99-136: the default architecture and the installer's arguments. *)

\* lines 99-113: arch after "set arch automatically if omitted"; v is a valid
\* version whenever the windows branch is taken
DefaultArch(h, v, a) ==
    IF Truthy(a) THEN a
    ELSE IF h = <<"windows">>
         THEN IF Compare(v, V_5_15_0, ">=") THEN <<"win64_msvc2019_64">>
              ELSE IF Compare(v, V_5_6_0, "<") THEN <<"win64_msvc2013_64">>
              ELSE IF Compare(v, V_5_9_0, "<") THEN <<"win64_msvc2015_64">>
              ELSE <<"win64_msvc2017_64">>
         ELSE IF h = <<"android">> THEN <<"android_armv7">>
         ELSE a

\* lines 99-101: the first compare throws on a version that is no semver
DefaultArchThrows(h, v, a) == ~Truthy(a) /\ h = <<"windows">> /\ ~IsSemver(v)

\* the condition with the host "android" counted like "windows"
ArchIncluded_AndroidHost(h, tg, ar) ==
    Truthy(ar) /\ ((h \in {<<"windows">>, <<"android">>} \/ tg = <<"android">>)
                   \/ ar = <<"wasm_32">>)

\* line 117
ArchIncluded(h, tg, ar) ==
    Truthy(ar) /\ ((h = <<"windows">> \/ tg = <<"android">>) \/ ar = <<"wasm_32">>)

\* lines 128-134
ExtraArgs(d, e) ==
    << <<"-O">>, d >> \o (IF Truthy(e) THEN Split(e, " ") ELSE <<>>)

\* the modules pushed after the output directory and the extra arguments
InstallArgs_ModulesLast(h, tg, v, ar, m, extraArgs) ==
    <<h, tg, v>>
        \o (IF ArchIncluded(h, tg, ar) THEN <<ar>> ELSE <<>>)
        \o extraArgs
        \o (IF Truthy(m) THEN << <<"-m">> >> \o Split(m, " ") ELSE <<>>)

\* lines 116-126 and 136
InstallArgs(h, tg, v, ar, m, extraArgs) ==
    <<h, tg, v>>
        \o (IF ArchIncluded(h, tg, ar) THEN <<ar>> ELSE <<>>)
        \o (IF Truthy(m) THEN << <<"-m">> >> \o Split(m, " ") ELSE <<>>)
        \o extraArgs

\* the install block entered whatever the cached flag says
NotCached_Ignored(flag) == TRUE

\* line 83
NotCached(flag) == flag # "true"

---------------------------------------------------------------------------
(* Lines 142-149: the tool installations. *)

\* lines 144-147
ToolCall(element, extraArgs, nth) ==
    LET elements == Split(element, ",")
        toolName == elements[1]
        variantName == IF Len(elements) > 1 THEN elements[Len(elements)] ELSE Empty
    IN  Call("install-tool",
             PythonName \o <<" -m aqt install-tool ">> \o host \o <<" ">> \o target
                 \o <<" ">> \o toolName \o <<" ">> \o variantName,
             extraArgs, nth)

\* each tool awaited before the next one is started
FireTools_OneByOne(elements, extraArgs) ==
    [i \in 1..Len(elements) |->
        [call |-> ToolCall(elements[i], extraArgs, i),
         st |-> IF i = 1 THEN "running" ELSE "queued"]]

\* line 143: forEach calls the async callback for every element at once; each
\* callback runs up to its await, that is, starts its installation
FireTools(elements, extraArgs) ==
    [i \in 1..Len(elements) |->
        [call |-> ToolCall(elements[i], extraArgs, i), st |-> "running"]]

---------------------------------------------------------------------------
(* Lines 154-188: the environment. *)

\* line 156
VersionDir(v) == IF v = V_5_9_0 THEN V_5_9 ELSE v

\* glob.sync(prefix + '/**/*') when n paths match
Glob(prefix, n) == [i \in 1..n |-> prefix \o <<"/entry", ToString(i)>>]

\* line 159: [0] of an empty array is undefined
First(matches) == IF Len(matches) = 0 THEN Undefined ELSE matches[1]

\* core.exportVariable(name, val): undefined is exported as ""
ExportVariable(name, val) ==
    [op |-> "exportVariable", name |-> name,
     value |-> IF val = Undefined THEN Empty ELSE val]

\* core.addPath(p)
AddPath(p) == [op |-> "addPath", name |-> "PATH", value |-> p]

\* lines 161-163
ToolsMutations(tl, d) ==
    IF Truthy(tl) THEN <<ExportVariable("IQTA_TOOLS", Plus(d, <<"/Tools">>))>>
    ELSE <<>>

\* lines 164-170
LdLibraryPathMutations(plat, old, qp) ==
    IF plat = "linux"
    THEN IF Truthy(old)
         THEN <<ExportVariable("LD_LIBRARY_PATH",
                               Plus(Plus(Plus(old, <<":">>), qp), <<"/lib">>))>>
         ELSE <<ExportVariable("LD_LIBRARY_PATH", Plus(qp, <<"/lib">>))>>
    ELSE <<>>

\* the old value appended to whenever the variable is set, the empty one too
PkgConfigPathMutations_AppendsToEmpty(plat, old, qp) ==
    IF plat # "win32"
    THEN IF old # Undefined
         THEN <<ExportVariable("PKG_CONFIG_PATH",
                               Plus(Plus(Plus(old, <<":">>), qp), <<"/lib/pkgconfig">>))>>
         ELSE <<ExportVariable("PKG_CONFIG_PATH", Plus(qp, <<"/lib/pkgconfig">>))>>
    ELSE <<>>

\* lines 171-177
PkgConfigPathMutations(plat, old, qp) ==
    IF plat # "win32"
    THEN IF Truthy(old)
         THEN <<ExportVariable("PKG_CONFIG_PATH",
                               Plus(Plus(Plus(old, <<":">>), qp), <<"/lib/pkgconfig">>))>>
         ELSE <<ExportVariable("PKG_CONFIG_PATH", Plus(qp, <<"/lib/pkgconfig">>))>>
    ELSE <<>>

\* the Qt5 branch taken up to and including 6.0.0
QtDirMutations_UpTo6(v, qp) ==
    IF CompareVersions(v, V_6_0_0) \in {-1, 0}
    THEN <<ExportVariable("Qt5_Dir", qp), ExportVariable("Qt5_DIR", qp)>>
    ELSE <<ExportVariable("Qt6_DIR", qp)>>

\* lines 178-184, for a valid version
QtDirMutations(v, qp) ==
    IF Compare(v, V_6_0_0, "<")
    THEN <<ExportVariable("Qt5_Dir", qp), ExportVariable("Qt5_DIR", qp)>>
    ELSE <<ExportVariable("Qt6_DIR", qp)>>

\* lines 185-187
PathMutations(qp) ==
    <<ExportVariable("QT_PLUGIN_PATH", Plus(qp, <<"/plugins">>)),
      ExportVariable("QML2_IMPORT_PATH", Plus(qp, <<"/qml">>)),
      AddPath(Plus(qp, <<"/bin">>))>>

\* lines 161-177: what is exported before the version is compared
EarlyMutations(old1, old2, qp) ==
    ToolsMutations(tools, dir)
        \o LdLibraryPathMutations(platform, old1, qp)
        \o PkgConfigPathMutations(platform, old2, qp)

---------------------------------------------------------------------------
(* run(): how an atomic piece of it ends. *)

consts1 == <<dir, tools, setEnv>>
consts2 == <<host, target, simpleSpec, cached>>
block == <<archInput, arch, extra, modules, args>>
env == <<qtPath, ldLibraryPath, pkgConfigPath, mutations>>

\* the awaited calls in `done` have settled; run() starts `call` and awaits it
Await(done, call, label) ==
    /\ pc' = label
    /\ inflight' = (inflight \ done) \cup {call}
    /\ failedMsg' = failedMsg

\* lines 189-191: an error reaches the catch, which calls core.setFailed
Throw(done, message) ==
    /\ pc' = "done"
    /\ inflight' = inflight \ done
    /\ failedMsg' = message

\* run() returns
Return(done) ==
    /\ pc' = "done"
    /\ inflight' = inflight \ done
    /\ failedMsg' = failedMsg

\* the locals of the install block are gone once it is left
LeaveBlock ==
    /\ archInput' = Empty /\ arch' = Empty /\ extra' = Empty /\ modules' = Empty
    /\ args' = <<>>

\* exec.exec rejects on a non-zero exit code (ignoreReturnCode is not set)
ExecRejects(rv) == rv # 0

\* line 79
DetermineVersionThrows(rv) == rv # 0

---------------------------------------------------------------------------
(* run(), from one await to the next. *)

\* lines 63-95 (cached: lines 63-83, then line 155)
Lines63to95(done) ==
    \E h \in HostInputs, tg \in TargetInputs, sp \in SpecInputs, ca \in FlagInputs :
        /\ host' = OrElse(h, GetDefaultHost)
        /\ target' = OrElse(tg, <<"desktop">>)
        /\ simpleSpec' = OrElse(sp, <<"6.2">>)
        /\ cached' = ca
        /\ IF NotCached(ca)
           THEN /\ IF platform = "darwin"
                   THEN Await(done, BrewCall, "brew")
                   ELSE Await(done, PipSetuptoolsCall, "pipSetuptools")
                /\ nResolve' = nResolve
           ELSE /\ Await(done, ResolveCall(host', target', simpleSpec', nResolve + 1),
                      "resolve2")
                /\ nResolve' = nResolve + 1

\* lines 44-60
Lines44to60(done) ==
    \E d \in DirInputs, tl \in ToolsInputs, se \in FlagInputs, deps \in DepsInputs :
        /\ dir' = Plus(OrElse(d, RunnerWorkspace), <<"/Qt">>)
        /\ tools' = tl
        /\ setEnv' = se
        /\ IF platform = "linux" /\ deps \in {"true", "nosudo"}
           THEN /\ Await(done, AptUpdateCall(AptPrefix(deps)), "aptUpdate")
                /\ UNCHANGED <<consts2, nResolve>>
           ELSE Lines63to95(done)

\* lines 36-43
Start ==
    /\ ~exited
    /\ pc = "start"
    /\ \E sp \in FlagInputs :
          IF sp = "true"
          THEN /\ Await({}, SetupPythonCall, "setupPython")
               /\ UNCHANGED <<consts1, consts2, nResolve>>
          ELSE Lines44to60({})
    /\ UNCHANGED <<platform, exited, toolCalls, block, version, env, badLookup>>

\* line 40 resolves
SetupPythonOk ==
    /\ ~exited
    /\ pc = "setupPython"
    /\ \E c \in inflight : c.kind = "setup-python" /\ Lines44to60({c})
    /\ UNCHANGED <<platform, exited, toolCalls, block, version, env, badLookup>>

\* lines 54 and 57 resolve
AptUpdateOk ==
    /\ ~exited
    /\ pc = "aptUpdate"
    /\ \E c \in inflight :
          /\ c.kind = "apt-update"
          /\ Await({c}, AptInstallCall(SubSeq(c.cmd, 1, Len(c.cmd) - 1)), "aptInstall")
    /\ UNCHANGED <<platform, exited, toolCalls, consts1, consts2, block, version, env,
                   nResolve, badLookup>>

\* lines 55 and 58 resolve
AptInstallOk ==
    /\ ~exited
    /\ pc = "aptInstall"
    /\ \E c \in inflight : c.kind = "apt-install" /\ Lines63to95({c})
    /\ UNCHANGED <<platform, exited, toolCalls, consts1, block, version, env, badLookup>>

\* line 86 resolves
BrewOk ==
    /\ ~exited
    /\ pc = "brew"
    /\ \E c \in inflight :
          c.kind = "brew" /\ Await({c}, PipSetuptoolsCall, "pipSetuptools")
    /\ UNCHANGED <<platform, exited, toolCalls, consts1, consts2, block, version, env,
                   nResolve, badLookup>>

\* line 89 resolves
PipSetuptoolsOk ==
    /\ ~exited
    /\ pc = "pipSetuptools"
    /\ \E c \in inflight, pin \in PinInputs :
          c.kind = "pip-setuptools" /\ Await({c}, PipPy7zrCall(pin), "pipPy7zr")
    /\ UNCHANGED <<platform, exited, toolCalls, consts1, consts2, block, version, env,
                   nResolve, badLookup>>

\* line 90 resolves
PipPy7zrOk ==
    /\ ~exited
    /\ pc = "pipPy7zr"
    /\ \E c \in inflight, pin \in PinInputs :
          c.kind = "pip-py7zr" /\ Await({c}, PipAqtCall(pin), "pipAqt")
    /\ UNCHANGED <<platform, exited, toolCalls, consts1, consts2, block, version, env,
                   nResolve, badLookup>>

\* line 91 resolves; lines 92-95
PipAqtOk ==
    /\ ~exited
    /\ pc = "pipAqt"
    /\ \E c \in inflight :
          /\ c.kind = "pip-aqtinstall"
          /\ Await({c}, ResolveCall(host, target, simpleSpec, nResolve + 1), "resolve1")
    /\ nResolve' = nResolve + 1
    /\ UNCHANGED <<platform, exited, toolCalls, consts1, consts2, block, version, env,
                   badLookup>>

\* lines 142-155: the tools are fired, none is awaited, and the version is
\* looked up again
Lines142to155(done, extraArgs) ==
    /\ toolCalls' = IF Truthy(tools)
                    THEN FireTools(Split(tools, " "), extraArgs)
                    ELSE <<>>
    /\ Await(done, ResolveCall(host, target, simpleSpec, nResolve + 1), "resolve2")
    /\ nResolve' = nResolve + 1
    /\ version' = Undefined
    /\ LeaveBlock

\* lines 95-141, with the version the first lookup printed
Lines95to141(done, v) ==
    \E a \in ArchInputs, e \in ExtraInputs, m \in ModulesInputs, to \in FlagInputs :
        IF DefaultArchThrows(host, v, a)
        THEN /\ Throw(done, SemverError(v))
             /\ version' = Undefined
             /\ LeaveBlock
             /\ UNCHANGED <<toolCalls, nResolve>>
        ELSE LET ar == DefaultArch(host, v, a)
                 extraArgs == ExtraArgs(dir, e)
                 argv == InstallArgs(host, target, v, ar, m, extraArgs)
             IN  IF to # "true"
                 THEN /\ Await(done, InstallCall(argv), "install")
                      /\ version' = v
                      /\ archInput' = a /\ arch' = ar /\ extra' = e /\ modules' = m
                      /\ args' = argv
                      /\ UNCHANGED <<toolCalls, nResolve>>
                 ELSE Lines142to155(done, extraArgs)

\* line 75 settles with exit code 0: determineVersion returns the trimmed output
Resolve1Returns ==
    /\ ~exited
    /\ pc = "resolve1"
    /\ \E c \in inflight, raw \in RawOutputs :
          /\ c.kind = "list-qt"
          /\ badLookup' = (badLookup \/ Trim(raw) = Empty)
          /\ Lines95to141({c}, Trim(raw))
    /\ UNCHANGED <<platform, exited, consts1, consts2, env>>

\* line 140 resolves
InstallOk ==
    /\ ~exited
    /\ pc = "install"
    /\ \E c \in inflight :
          c.kind = "install-qt" /\ Lines142to155({c}, ExtraArgs(dir, extra))
    /\ UNCHANGED <<platform, exited, consts1, consts2, env, badLookup>>

\* lines 155-188, with the version the second lookup printed
Lines155to188(done, v) ==
    \E n \in 0..MaxGlob,
       old1 \in (IF setEnv = "true" /\ platform = "linux"
                 THEN EnvValues ELSE {Undefined}),
       old2 \in (IF setEnv = "true" /\ platform # "win32"
                 THEN EnvValues ELSE {Undefined}) :
        LET version_dir == VersionDir(v)
            qp == First(Glob(Plus(Plus(dir, <<"/">>), version_dir), n))
        IN  /\ version' = v
            /\ qtPath' = qp
            /\ ldLibraryPath' = old1
            /\ pkgConfigPath' = old2
            /\ IF setEnv = "true"
               THEN IF IsSemver(v)
                    THEN /\ mutations' = EarlyMutations(old1, old2, qp)
                                            \o QtDirMutations(v, qp)
                                            \o PathMutations(qp)
                         /\ Return(done)
                    ELSE /\ mutations' = EarlyMutations(old1, old2, qp)
                         /\ Throw(done, SemverError(v))
               ELSE /\ mutations' = <<>>
                    /\ Return(done)

\* line 155 settles with exit code 0
Resolve2Returns ==
    /\ ~exited
    /\ pc = "resolve2"
    /\ \E c \in inflight, raw \in RawOutputs :
          /\ c.kind = "list-qt"
          /\ badLookup' = (badLookup \/ Trim(raw) = Empty)
          /\ Lines155to188({c}, Trim(raw))
    /\ UNCHANGED <<platform, exited, toolCalls, consts1, consts2, block, nResolve>>

\* a version lookup exits non-zero: the error reaches the catch
ResolveFails ==
    /\ ~exited
    /\ pc \in {"resolve1", "resolve2"}
    /\ \E c \in inflight, rv \in ExitCodes \ {0} :
          /\ c.kind = "list-qt"
          /\ ExecRejects(rv) \/ DetermineVersionThrows(rv)
          /\ Throw({c}, IF ExecRejects(rv) THEN ExecError(c)
                        ELSE ResolveError(simpleSpec))
    /\ badLookup' = TRUE
    /\ version' = Undefined
    /\ LeaveBlock
    /\ UNCHANGED <<platform, exited, toolCalls, consts1, consts2, env, nResolve>>

\* any other awaited call rejects: the error reaches the catch
AwaitedCallFails ==
    /\ ~exited
    /\ pc \notin {"start", "done", "resolve1", "resolve2"}
    /\ \E c \in inflight : Throw({c}, ExecError(c))
    /\ version' = Undefined
    /\ LeaveBlock
    /\ UNCHANGED <<platform, exited, toolCalls, consts1, consts2, env, nResolve, badLookup>>

\* line 147 resolves: nothing waits for it
ToolOk(i) ==
    /\ ~exited
    /\ toolCalls[i].st = "running"
    /\ toolCalls' = [toolCalls EXCEPT ![i].st = "ok"]
    /\ UNCHANGED <<platform, exited, pc, inflight, failedMsg, consts1, consts2, block,
                   version, env, nResolve, badLookup>>

\* line 147 rejects: the callback's promise is rejected and nobody handles it.
\* Node either only warns, or ends the process with the unhandled rejection.
ToolFails(i) ==
    /\ ~exited
    /\ toolCalls[i].st = "running"
    /\ toolCalls' = [toolCalls EXCEPT ![i].st = "failed"]
    /\ exited' \in BOOLEAN
    /\ UNCHANGED <<platform, pc, inflight, failedMsg, consts1, consts2, block,
                   version, env, nResolve, badLookup>>

ToolSettles == \E i \in DOMAIN toolCalls : ToolOk(i) \/ ToolFails(i)

---------------------------------------------------------------------------

Init ==
    /\ platform \in Platforms
    /\ pc = "start"
    /\ exited = FALSE
    /\ inflight = {}
    /\ toolCalls = <<>>
    /\ failedMsg = Empty
    /\ dir = Undefined /\ tools = Undefined /\ setEnv = "unread"
    /\ host = Undefined /\ target = Undefined /\ simpleSpec = Undefined
    /\ cached = "unread"
    /\ archInput = Empty /\ arch = Empty /\ extra = Empty /\ modules = Empty
    /\ version = Undefined
    /\ args = <<>>
    /\ qtPath = Undefined /\ ldLibraryPath = Undefined /\ pkgConfigPath = Undefined
    /\ mutations = <<>>
    /\ nResolve = 0
    /\ badLookup = FALSE

Next ==
    \/ Start
    \/ SetupPythonOk
    \/ AptUpdateOk
    \/ AptInstallOk
    \/ BrewOk
    \/ PipSetuptoolsOk
    \/ PipPy7zrOk
    \/ PipAqtOk
    \/ Resolve1Returns
    \/ InstallOk
    \/ Resolve2Returns
    \/ ResolveFails
    \/ AwaitedCallFails
    \/ ToolSettles

Spec == Init /\ [][Next]_vars

---------------------------------------------------------------------------
(* What the properties below speak of. *)

\* the installer invocation run() is awaiting
InstallerInFlight == \E c \in inflight : c.kind = "install-qt"

\* the arguments the installer was started with
InstallerArgs == (CHOOSE c \in inflight : c.kind = "install-qt").args

\* the kinds of the calls in progress
KindsInFlight == {c.kind : c \in inflight}

\* run() came to its end through lines 155-188
ProjectionRan == pc = "done" /\ version # Undefined

\* a mutation of the variable `name` was emitted
Emitted(name) == \E i \in DOMAIN mutations : mutations[i].name = name

\* the variable `name` was exported with the value `val`
Exported(name, val) ==
    \E i \in DOMAIN mutations :
        mutations[i] = [op |-> "exportVariable", name |-> name, value |-> val]

\* v, a version of three numeric components, is below a.b.c
Below(v, a, b, c) ==
    LET p == Split(v, ".")
        x == ParseInt(p[1])
        y == ParseInt(p[2])
        z == ParseInt(p[3])
    IN  x < a \/ (x = a /\ (y < b \/ (y = b /\ z < c)))

\* a tool installation has failed
SomeToolFailed == \E i \in DOMAIN toolCalls : toolCalls[i].st = "failed"

\* this step starts an external call
StartsCall == inflight' \ inflight # {} \/ Len(toolCalls') > Len(toolCalls)

---------------------------------------------------------------------------
\* the table of default architectures, on the numbers of the version
C1_Expected ==
    IF archInput # Empty THEN archInput
    ELSE IF host = <<"windows">>
         THEN IF ~Below(version, 5, 15, 0) THEN <<"win64_msvc2019_64">>
              ELSE IF Below(version, 5, 6, 0) THEN <<"win64_msvc2013_64">>
              ELSE IF Below(version, 5, 9, 0) THEN <<"win64_msvc2015_64">>
              ELSE <<"win64_msvc2017_64">>
         ELSE IF host = <<"android">> THEN <<"android_armv7">>
         ELSE Empty

(* C1: with no architecture given, the architecture the installer is started
   with follows the table (windows: >= 5.15.0 msvc2019, < 5.6.0 msvc2013,
   < 5.9.0 msvc2015, else msvc2017, compared number by number; android:
   android_armv7; any other host: none); a given architecture is kept. *)
C1_DefaultArch == InstallerInFlight => arch = C1_Expected

C1_Witness ==
    /\ InstallerInFlight
    /\ archInput = Empty
    /\ host = <<"windows">>
    /\ version = <<"5", ".", "1", "4", ".", "9">>
    /\ arch = <<"win64_msvc2017_64">>

---------------------------------------------------------------------------
\* the installer's arguments hold the architecture, right after the version
ArchTokenPresent == InstallerArgs[4] = arch

(* C2, as claimed: the installer's arguments hold the architecture token iff
   the host is windows or android, or the target is android, or the
   architecture is wasm_32 (stated of the runs whose lookup printed a
   version). *)
C2_AsClaimed ==
    (InstallerInFlight /\ ~badLookup) =>
        (ArchTokenPresent <=>
            (host \in {<<"windows">>, <<"android">>} \/ target = <<"android">>
             \/ arch = <<"wasm_32">>))

(* C2, amended: the installer's arguments hold the architecture token iff the
   architecture is not empty and the host is windows, or the target is
   android, or the architecture is wasm_32. *)
C2_ArchToken ==
    InstallerInFlight =>
        (ArchTokenPresent <=>
            (arch # Empty /\ (host = <<"windows">> \/ target = <<"android">>
                              \/ arch = <<"wasm_32">>)))

C2_Witness ==
    /\ InstallerInFlight
    /\ host = <<"android">>
    /\ target = <<"desktop">>
    /\ arch = <<"android_armv7">>
    /\ ~ArchTokenPresent

---------------------------------------------------------------------------
(* C3: once a version lookup has exited non-zero or printed nothing, the run
   is marked failed, and no installer, no tool installation and no
   environment mutation follows. *)
C3_LookupFailureAborts ==
    [][badLookup' =>
          /\ failedMsg' # Empty
          /\ "install-qt" \notin {c.kind : c \in inflight'}
          /\ Len(toolCalls') = Len(toolCalls)
          /\ mutations' = mutations]_vars

---------------------------------------------------------------------------
(* C4: when the second lookup printed nothing or the glob matched nothing, no
   variable is exported and no path is prepended. *)
C4_NoMutationAfterFailure ==
    (ProjectionRan /\ (version = Empty \/ qtPath = Undefined)) => mutations = <<>>

---------------------------------------------------------------------------
(* C5: a failed step, a tool installation included, marks the run failed;
   after it no call is started and no environment mutation is emitted
   (stated of the runs whose lookups printed a version). *)
C5_FailFast ==
    [][~badLookup' =>
          /\ SomeToolFailed' => failedMsg' # Empty
          /\ (SomeToolFailed \/ failedMsg # Empty) =>
                 (~StartsCall /\ mutations' = mutations)]_vars

---------------------------------------------------------------------------
\* the value the code appends to: JavaScript takes "" for no value
Appended(old, path) == IF old \in {Undefined, Empty} THEN path ELSE old \o <<":">> \o path

C6_Values ==
    /\ Emitted("LD_LIBRARY_PATH") =>
          Exported("LD_LIBRARY_PATH",
                   Appended(ldLibraryPath, JsStr(qtPath) \o <<"/lib">>))
    /\ Emitted("PKG_CONFIG_PATH") =>
          Exported("PKG_CONFIG_PATH",
                   Appended(pkgConfigPath, JsStr(qtPath) \o <<"/lib/pkgconfig">>))

(* C6, as claimed: the library path is exported iff the run's host is linux,
   the pkg-config path iff the run's host is not windows, each as the old
   value, ":" and the new directory, or the new directory alone (stated of
   the runs whose lookups printed a version). *)
C6_AsClaimed ==
    (ProjectionRan /\ setEnv = "true" /\ ~badLookup) =>
        /\ Emitted("LD_LIBRARY_PATH") <=> host = <<"linux">>
        /\ Emitted("PKG_CONFIG_PATH") <=> host # <<"windows">>
        /\ C6_Values

(* C6, amended: with the export enabled, the library path is exported iff the
   runner's platform is linux, the pkg-config path iff it is not win32,
   whatever the host input; the values are as claimed. *)
C6_SearchPaths ==
    (ProjectionRan /\ setEnv = "true") =>
        /\ Emitted("LD_LIBRARY_PATH") <=> platform = "linux"
        /\ Emitted("PKG_CONFIG_PATH") <=> platform # "win32"
        /\ C6_Values

C6_Witness ==
    /\ ProjectionRan
    /\ platform = "linux"
    /\ host = <<"windows">>
    /\ ldLibraryPath = <<"X">>
    /\ qtPath # Undefined
    /\ Exported("LD_LIBRARY_PATH", <<"X", ":">> \o qtPath \o <<"/lib">>)

---------------------------------------------------------------------------
(* C7: the installer's arguments are host, target, version, then the
   architecture if it is included, then "-m" and the modules if there are
   any, then "-O" and the directory, then the extra arguments, in input
   order and with nothing else. *)
C7_ArgumentOrder ==
    InstallerInFlight =>
        \E archPart \in (IF arch = Empty THEN {<<>>} ELSE {<<>>, <<arch>>}) :
            InstallerArgs =
                <<host, target, version>>
                    \o archPart
                    \o (IF modules # Empty
                        THEN << <<"-m">> >> \o Split(modules, " ")
                        ELSE <<>>)
                    \o << <<"-O">>, dir >>
                    \o (IF extra # Empty THEN Split(extra, " ") ELSE <<>>)

C7_Witness ==
    /\ InstallerInFlight
    /\ InstallerArgs =
          << <<"windows">>, <<"desktop">>, V_5_15_0, <<"win64_msvc2019_64">>,
             <<"-m">>, <<"a">>, <<"b">>, <<"-O">>, <<"/work", "/Qt">>,
             <<"x">>, <<"y">> >>

---------------------------------------------------------------------------
(* C8: with the export enabled, a version below 6.0.0 exports Qt5_Dir and
   Qt5_DIR, both the SDK path, and no Qt6_DIR; a version from 6.0.0 on exports
   Qt6_DIR and neither Qt5 variable; both export the plugin path and the QML
   import path and prepend the bin directory. *)
C8_QtDirVariables ==
    (ProjectionRan /\ setEnv = "true" /\ version # Empty) =>
        /\ IF Below(version, 6, 0, 0)
           THEN /\ Emitted("Qt5_Dir") /\ Emitted("Qt5_DIR") /\ ~Emitted("Qt6_DIR")
                /\ qtPath # Undefined =>
                      Exported("Qt5_Dir", qtPath) /\ Exported("Qt5_DIR", qtPath)
           ELSE /\ Emitted("Qt6_DIR") /\ ~Emitted("Qt5_Dir") /\ ~Emitted("Qt5_DIR")
                /\ qtPath # Undefined => Exported("Qt6_DIR", qtPath)
        /\ Exported("QT_PLUGIN_PATH", JsStr(qtPath) \o <<"/plugins">>)
        /\ Exported("QML2_IMPORT_PATH", JsStr(qtPath) \o <<"/qml">>)
        /\ mutations[Len(mutations)] =
              [op |-> "addPath", name |-> "PATH", value |-> JsStr(qtPath) \o <<"/bin">>]

C8_Witness ==
    /\ ProjectionRan
    /\ version = V_6_0_0
    /\ qtPath # Undefined
    /\ Exported("Qt6_DIR", qtPath)
    /\ ~Emitted("Qt5_DIR")

---------------------------------------------------------------------------
(* C9: a cached run starts no pip install, no installer and no tool
   installation, looks the version up once and projects the environment from
   it; any other run looks the version up once before the installer and once
   after it, and emits the environment only after the second lookup. *)
C9_CachedSkipsInstall ==
    /\ cached = "true" =>
          /\ KindsInFlight \subseteq {"list-qt"}
          /\ toolCalls = <<>>
          /\ nResolve <= 1
          /\ (ProjectionRan \/ mutations # <<>>) => nResolve = 1
          /\ (ProjectionRan /\ setEnv = "true" /\ failedMsg = Empty) =>
                mutations # <<>>
    /\ cached = "false" =>
          /\ InstallerInFlight => nResolve = 1
          /\ nResolve = 2 => ~InstallerInFlight
          /\ (ProjectionRan \/ mutations # <<>>) =>
                nResolve = 2 /\ "list-qt" \notin KindsInFlight

C9_Witness ==
    /\ cached = "true"
    /\ ProjectionRan
    /\ nResolve = 1
    /\ Emitted("QT_PLUGIN_PATH")

---------------------------------------------------------------------------
(* C10: at most one call other than a tool installation is in progress, a
   call is started only when every earlier such call has settled, the tools
   are started only after the installer has settled, and the tools are all
   started together, none waiting for another. *)
C10_Sequential ==
    /\ [](/\ Cardinality(inflight) <= 1
          /\ InstallerInFlight => toolCalls = <<>>)
    /\ [][/\ StartsCall => inflight \cap inflight' = {}
          /\ Len(toolCalls') > Len(toolCalls) =>
                /\ toolCalls = <<>>
                /\ Len(toolCalls') = Len(Split(tools, " "))
                /\ \A i \in DOMAIN toolCalls' : toolCalls'[i].st = "running"]_vars

C10_Witness ==
    /\ Len(toolCalls) >= 2
    /\ toolCalls[1].st = "running"
    /\ toolCalls[2].st = "running"
    /\ "list-qt" \in KindsInFlight

====
